---- MODULE Spec2Model ----
(***************************************************************************)
(* Model of burst_db/query_frame_db.py: the two commands `lookup` and      *)
(* `intersect`, each run as one invocation against a GeoPackage database.  *)
(*                                                                         *)
(* Conventions                                                             *)
(*   - Python None for a tuple is the empty tuple <<>>, for the WKT text   *)
(*     it is NoWkt; SQL NULL is a record with null |-> TRUE.               *)
(*   - Strings that the code splits are sequences of one-character strings.*)
(*   - A geometry is the set of lattice points it covers.  The input       *)
(*     polygons are axis-aligned rectangles with integer corners, for      *)
(*     which "share a lattice point" is exactly "intersect"; the stored    *)
(*     frame geometries are arbitrary lattice regions.                     *)
(*   - A WKT text is its tag and its coordinate list.                      *)
(***************************************************************************)
EXTENDS Integers, Sequences, FiniteSets, TLC

VARIABLES
    cmd,              \* the command of this invocation: "lookup" / "intersect"
    frame_id,         \* lookup's argument
    bbox,             \* intersect's --bbox: <<>> or <<xmin, ymin, xmax, ymax>>
    wkt,              \* intersect's --wkt: NoWkt or a WKT text
    env,              \* what the file at db_path and the runtime are like
    frames,           \* table frames: fid -> row
    frames_bursts,    \* table frames_bursts: sequence of rows
    burst_id_map,     \* table burst_id_map: ogc_fid -> row
    rtree_frames_geom,\* spatial index: id -> [minx, maxx, miny, maxy]
    pc,               \* position in the invocation
    con,              \* the sqlite3 connection: "none", "open", "closed"
    ext_loaded,       \* mod_spatialite loaded into con
    queries,          \* number of queries executed
    wkt_str,          \* intersect's local wkt_str
    df,               \* the DataFrame read_sql_query returned (sequence of rows)
    result,           \* lookup's local result: <<>> or <<record>>
    stdout,           \* the documents written by typer.echo
    error             \* the exception that reached the CLI boundary, "" if none

vars == <<cmd, frame_id, bbox, wkt, env, frames, frames_bursts, burst_id_map,
          rtree_frames_geom, pc, con, ext_loaded, queries, wkt_str, df,
          result, stdout, error>>

args == <<cmd, frame_id, bbox, wkt>>
database == <<env, frames, frames_bursts, burst_id_map, rtree_frames_geom>>

----------------------------------------------------------------------------
(* Bounds *)

GridMax == 2        \* coordinates of the geometries range over 0..GridMax
MaxSlack == 1       \* how far an index box may extend beyond the exact MBR
MaxAssoc == 2       \* rows of frames_bursts
MaxFrameArg == 3    \* lookup is called with frame ids 1..MaxFrameArg
MaxBurstRef == 3    \* frames_bursts refers to burst fids 1..MaxBurstRef

Coord == 0..GridMax
Grid == Coord \X Coord
FrameIds == {1, 2}

----------------------------------------------------------------------------
(* Small helpers *)

RECURSIVE SetMin(_)
SetMin(S) ==
    LET x == CHOOSE x \in S : TRUE
    IN  IF S = {x} THEN x
        ELSE LET m == SetMin(S \ {x}) IN IF x < m THEN x ELSE m

RECURSIVE SetMax(_)
SetMax(S) ==
    LET x == CHOOSE x \in S : TRUE
    IN  IF S = {x} THEN x
        ELSE LET m == SetMax(S \ {x}) IN IF x > m THEN x ELSE m

Range(s) == {s[i] : i \in 1..Len(s)}

\* the rows of a table scan, in ascending rowid order
RECURSIVE ScanOrder(_)
ScanOrder(S) ==
    IF S = {} THEN <<>>
    ELSE LET m == SetMin(S) IN <<m>> \o ScanOrder(S \ {m})

SeqsUpTo(S, n) == UNION {[1..k -> S] : k \in 0..n}

----------------------------------------------------------------------------
(* Values *)

NoWkt == [tag |-> "None", ring |-> <<>>]
Null == [null |-> TRUE]
Val(v) == [null |-> FALSE, v |-> v]

\* the rows burst_id_map can hold (ids are strings without a comma)
BurstTables ==
    { (1 :> [burst_id_jpl |-> <<"b", "1">>, xmin |-> -120, ymin |-> 34,
             xmax |-> -119, ymax |-> 35]
       @@ 2 :> [burst_id_jpl |-> <<"b", "2">>, xmin |-> -119, ymin |-> 33,
                xmax |-> -117, ymax |-> 36]),
      (1 :> [burst_id_jpl |-> <<"t", "1", "_", "a">>, xmin |-> 5, ymin |-> 7,
             xmax |-> 5, ymax |-> 9]
       @@ 2 :> [burst_id_jpl |-> <<"t">>, xmin |-> 1, ymin |-> 8,
                xmax |-> 4, ymax |-> 8]) }

\* the non-spatial columns of a frames row
FrameAttrs(fid) ==
    IF fid = 1
    THEN [epsg |-> 32611, is_land |-> 1, is_north_america |-> 1]
    ELSE [epsg |-> 32612, is_land |-> 0, is_north_america |-> 1]

----------------------------------------------------------------------------
(* lookup: query_database *)

\* FROM frames f JOIN frames_bursts fb ON fb.frame_fid = f.fid
\*               JOIN burst_id_map b ON fb.burst_ogc_fid = b.ogc_fid
\* WHERE f.fid = ?   -- the burst rows of the joined rows
RECURSIVE JoinFrom(_, _)
JoinFrom(fb, fid) ==
    IF fb = <<>> THEN <<>>
    ELSE IF /\ fid \in DOMAIN frames
            /\ Head(fb).frame_fid = fid
            /\ Head(fb).burst_ogc_fid \in DOMAIN burst_id_map
         THEN <<burst_id_map[Head(fb).burst_ogc_fid]>> \o JoinFrom(Tail(fb), fid)
         ELSE JoinFrom(Tail(fb), fid)

\* a LEFT JOIN in place of the inner joins: a frame without bursts keeps a row
LeftJoinedRows(fid) ==
    IF fid \in DOMAIN frames /\ JoinFrom(frames_bursts, fid) = <<>>
    THEN <<[burst_id_jpl |-> <<>>, xmin |-> 0, ymin |-> 0, xmax |-> 0, ymax |-> 0]>>
    ELSE JoinFrom(frames_bursts, fid)

JoinedRows(fid) == JoinFrom(frames_bursts, fid)

\* GROUP_CONCAT(burst_id_jpl): the values joined by ","
RECURSIVE GroupConcat(_)
GroupConcat(rows) ==
    IF rows = <<>> THEN <<>>
    ELSE IF Len(rows) = 1 THEN Head(rows).burst_id_jpl
         ELSE Head(rows).burst_id_jpl \o <<",">> \o GroupConcat(Tail(rows))

AggMin(rows, col) == SetMin({rows[i][col] : i \in 1..Len(rows)})
AggMax(rows, col) == SetMax({rows[i][col] : i \in 1..Len(rows)})

\* the whole SELECT ... GROUP BY 1: no joined row, no group, no result row
LookupQuery(fid) ==
    LET rows == JoinedRows(fid)
    IN  IF rows = <<>> THEN <<>>
        ELSE <<[frame_id |-> fid,
                epsg |-> frames[fid].epsg,
                is_land |-> frames[fid].is_land,
                is_north_america |-> frames[fid].is_north_america,
                xmin |-> AggMin(rows, "xmin"),
                ymin |-> AggMin(rows, "ymin"),
                xmax |-> AggMax(rows, "xmax"),
                ymax |-> AggMax(rows, "ymax"),
                burst_ids |-> GroupConcat(rows)]>>

\* str.split without a separator found: the whole string as one piece
StrSplitWrong(s, sep) == <<s>>

\* str.split(sep)
RECURSIVE StrSplit(_, _)
StrSplit(s, sep) ==
    IF \A i \in 1..Len(s) : s[i] # sep THEN <<s>>
    ELSE LET k == SetMin({i \in 1..Len(s) : s[i] = sep})
         IN  <<SubSeq(s, 1, k - 1)>> \o StrSplit(SubSeq(s, k + 1, Len(s)), sep)

AsBool(v) == v # 0

\* lines 55-58: the reshaped rows, indexed by frame_id (which leaves the record)
OutDict(d) ==
    [k \in {d[i].frame_id : i \in 1..Len(d)} |->
        LET r == d[CHOOSE i \in 1..Len(d) : d[i].frame_id = k]
        IN  [epsg |-> r.epsg,
             is_land |-> AsBool(r.is_land),
             is_north_america |-> AsBool(r.is_north_america),
             xmin |-> r.xmin, ymin |-> r.ymin, xmax |-> r.xmax, ymax |-> r.ymax,
             burst_ids |-> StrSplit(r.burst_ids, ",")]]

----------------------------------------------------------------------------
(* intersect: geometry and the SQL functions of the query *)

\* the box built with the x and y of every vertex exchanged
build_wkt_from_bbox_swapped(xmin, ymin, xmax, ymax) ==
    [tag |-> "POLYGON",
     ring |-> << <<ymin, xmax>>, <<ymax, xmax>>, <<ymax, xmin>>,
                 <<ymin, xmin>>, <<ymin, xmax>> >>]

\* shapely.box(xmin, ymin, xmax, ymax).wkt: the ring starts at (xmax, ymin)
\* and runs counter-clockwise
build_wkt_from_bbox(xmin, ymin, xmax, ymax) ==
    [tag |-> "POLYGON",
     ring |-> << <<xmax, ymin>>, <<xmax, ymax>>, <<xmin, ymax>>,
                 <<xmin, ymin>>, <<xmax, ymin>> >>]

\* a polygon text: the tag POLYGON and a closed ring of at least 4 vertices
IsPolygonText(text) ==
    /\ text.tag = "POLYGON"
    /\ Len(text.ring) >= 4
    /\ text.ring[1] = text.ring[Len(text.ring)]

\* the lattice points a rectangular ring encloses (boundary included)
Region(ring) ==
    LET xs == {ring[i][1] : i \in 1..Len(ring)}
        ys == {ring[i][2] : i \in 1..Len(ring)}
    IN  {p \in Grid : /\ SetMin(xs) <= p[1] /\ p[1] <= SetMax(xs)
                      /\ SetMin(ys) <= p[2] /\ p[2] <= SetMax(ys)}

\* PolygonFromText(?, 4326): NULL unless the text is a well-formed POLYGON
PolygonFromText(text) ==
    IF IsPolygonText(text) THEN Val(Region(text.ring)) ELSE Null

\* MbrMinX and the like: NULL on NULL
MbrMinX(g) == IF g.null THEN Null ELSE Val(SetMin({p[1] : p \in g.v}))
MbrMaxX(g) == IF g.null THEN Null ELSE Val(SetMax({p[1] : p \in g.v}))
MbrMinY(g) == IF g.null THEN Null ELSE Val(SetMin({p[2] : p \in g.v}))
MbrMaxY(g) == IF g.null THEN Null ELSE Val(SetMax({p[2] : p \in g.v}))

\* GeomFromGPB(geom): the geometry of a GeoPackage blob
GeomFromGPB(blob) == Val(blob.pts)

\* ASText(g)
ASText(g) == [tag |-> "POLYGON", covers |-> g.v]

\* Intersects(g1, g2): 1, 0, or -1 when an argument is NULL
Intersects(g1, g2) ==
    IF g1.null \/ g2.null THEN -1
    ELSE IF g1.v \cap g2.v # {} THEN 1 ELSE 0

\* a comparison with NULL is not true
SqlLeq(a, b) == ~a.null /\ ~b.null /\ a.v <= b.v
SqlGeq(a, b) == ~a.null /\ ~b.null /\ a.v >= b.v

\* WITH given_geom AS (...), BBox AS (...)
given_geom(text) == PolygonFromText(text)
BBox(text) ==
    [minx |-> MbrMinX(given_geom(text)), maxx |-> MbrMaxX(given_geom(text)),
     miny |-> MbrMinY(given_geom(text)), maxy |-> MbrMaxY(given_geom(text))]

\* SELECT id FROM rtree_frames_geom JOIN BBox ON ...
Candidates(text) ==
    {id \in DOMAIN rtree_frames_geom :
        /\ SqlLeq(Val(rtree_frames_geom[id].minx), BBox(text).maxx)
        /\ SqlGeq(Val(rtree_frames_geom[id].maxx), BBox(text).minx)
        /\ SqlLeq(Val(rtree_frames_geom[id].miny), BBox(text).maxy)
        /\ SqlGeq(Val(rtree_frames_geom[id].maxy), BBox(text).miny)}

\* the fids the WHERE clause keeps
Selected(text) ==
    {fid \in DOMAIN frames :
        /\ fid \in Candidates(text)
        /\ Intersects(given_geom(text), GeomFromGPB(frames[fid].geom)) # 0}

RECURSIVE Project(_)
Project(fids) ==
    IF fids = <<>> THEN <<>>
    ELSE <<[frame_id |-> Head(fids),
            epsg |-> frames[Head(fids)].epsg,
            is_land |-> frames[Head(fids)].is_land,
            is_north_america |-> frames[Head(fids)].is_north_america,
            wkt |-> ASText(GeomFromGPB(frames[Head(fids)].geom))]>>
         \o Project(Tail(fids))

\* the whole SELECT of intersect, rows in table order
IntersectQueryRows(text) == Project(ScanOrder(Selected(text)))

\* Connection.__exit__ of sqlite3: ends the transaction, leaves the
\* connection open
WithExit(c) == c

----------------------------------------------------------------------------
(* The databases and the command lines *)

Envs == {"ok", "unopenable", "not_gpkg", "no_spatialite"}

\* the stored frame geometries: a square, a diagonal sliver, a single cell
FrameShapes ==
    { {<<0, 0>>, <<0, 1>>, <<1, 0>>, <<1, 1>>},
      {<<0, 0>>, <<1, 1>>, <<2, 2>>},
      {<<2, 0>>} }

FrameRow(fid, pts) ==
    [epsg |-> FrameAttrs(fid).epsg,
     is_land |-> FrameAttrs(fid).is_land,
     is_north_america |-> FrameAttrs(fid).is_north_america,
     geom |-> [header |-> "GP", pts |-> pts]]

\* the index entry the GeoPackage triggers keep for a geometry: its MBR,
\* rounded outwards by the index's coordinate precision
RtreeEntry(pts, slack) ==
    [minx |-> SetMin({p[1] : p \in pts}) - slack,
     maxx |-> SetMax({p[1] : p \in pts}) + slack,
     miny |-> SetMin({p[2] : p \in pts}) - slack,
     maxy |-> SetMax({p[2] : p \in pts}) + slack]

BoxArgs == {<<a, b, c, d>> : a \in Coord, b \in Coord, c \in Coord, d \in Coord}

SquareText(lo, hi) ==
    [tag |-> "POLYGON",
     ring |-> << <<lo, lo>>, <<lo, hi>>, <<hi, hi>>, <<hi, lo>>, <<lo, lo>> >>]

PolygonTexts == {SquareText(lo, hi) : lo \in Coord, hi \in Coord}

\* well-formed WKT of another geometry type
OtherGeometryTexts ==
    { [tag |-> "POINT", ring |-> << <<1, 1>> >>],
      [tag |-> "LINESTRING", ring |-> << <<0, 2>>, <<2, 2>> >>] }

\* text the WKT parser rejects
MalformedTexts ==
    { [tag |-> "POLYGON", ring |-> << <<0, 0>>, <<0, 1>>, <<1, 1>>, <<1, 0>> >>],
      [tag |-> "garbage", ring |-> <<>>] }

WktArgs == PolygonTexts \cup OtherGeometryTexts \cup MalformedTexts

\* --bbox and --wkt as given on the command line
IntersectArgs ==
    {<<<<>>, NoWkt>>}
    \cup {<<b, NoWkt>> : b \in BoxArgs}
    \cup {<<<<>>, w>> : w \in WktArgs}
    \cup {<<b, w>> : b \in BoxArgs,
                     w \in {SquareText(0, 1), [tag |-> "garbage", ring |-> <<>>]}}

AssocRows == [frame_fid : FrameIds, burst_ogc_fid : 1..MaxBurstRef]

InitLocals ==
    /\ pc = "start"
    /\ con = "none"
    /\ ext_loaded = FALSE
    /\ queries = 0
    /\ wkt_str = NoWkt
    /\ df = <<>>
    /\ result = <<>>
    /\ stdout = <<>>
    /\ error = ""

InitLookup ==
    /\ cmd = "lookup"
    /\ frame_id \in 1..MaxFrameArg
    /\ bbox = <<>>
    /\ wkt = NoWkt
    /\ env \in Envs
    /\ \E dom \in SUBSET FrameIds :
          /\ frames = [fid \in dom |-> FrameRow(fid, {<<0, 0>>})]
          /\ rtree_frames_geom = [fid \in dom |-> RtreeEntry({<<0, 0>>}, 0)]
    /\ frames_bursts \in SeqsUpTo(AssocRows, MaxAssoc)
    /\ burst_id_map \in BurstTables
    /\ InitLocals

InitIntersect ==
    /\ cmd = "intersect"
    /\ frame_id = 0
    /\ \E a \in IntersectArgs : bbox = a[1] /\ wkt = a[2]
    /\ env \in Envs
    /\ \E dom \in {{}, {1}, {1, 2}}, slack \in 0..MaxSlack :
          \E shape \in [dom -> FrameShapes] :
             /\ frames = [fid \in dom |-> FrameRow(fid, shape[fid])]
             /\ rtree_frames_geom = [fid \in dom |-> RtreeEntry(shape[fid], slack)]
    /\ frames_bursts = <<>>
    /\ burst_id_map = CHOOSE t \in BurstTables : t[1].xmin = 5
    /\ InitLocals

Init == InitLookup \/ InitIntersect

----------------------------------------------------------------------------
(* intersect *)

\* lines 83-86
IntersectValidate ==
    /\ cmd = "intersect" /\ pc = "start"
    /\ IF bbox = <<>> /\ wkt = NoWkt
       THEN pc' = "failed" /\ error' = "BadParameter"
       ELSE pc' = "resolve" /\ error' = error
    /\ UNCHANGED <<args, database, con, ext_loaded, queries, wkt_str, df,
                   result, stdout>>

\* line 87
IntersectResolve ==
    /\ cmd = "intersect" /\ pc = "resolve"
    /\ wkt_str' = IF bbox # <<>>
                  THEN build_wkt_from_bbox(bbox[1], bbox[2], bbox[3], bbox[4])
                  ELSE wkt
    /\ pc' = "connect"
    /\ UNCHANGED <<args, database, con, ext_loaded, queries, df, result,
                   stdout, error>>

\* line 127: sqlite3.connect(db_path)
IntersectConnect ==
    /\ cmd = "intersect" /\ pc = "connect"
    /\ IF env = "unopenable"
       THEN pc' = "failed" /\ error' = "OperationalError" /\ con' = con
       ELSE pc' = "load_ext" /\ error' = error /\ con' = "open"
    /\ UNCHANGED <<args, database, ext_loaded, queries, wkt_str, df, result,
                   stdout>>

\* the extension load with its error caught and ignored
IntersectLoadExtensionIgnoringError ==
    /\ cmd = "intersect" /\ pc = "load_ext"
    /\ pc' = "query"
    /\ ext_loaded' = (env # "no_spatialite")
    /\ UNCHANGED <<args, database, con, queries, wkt_str, df, result, stdout,
                   error>>

\* lines 128-129; an exception leaves the with block through __exit__
IntersectLoadExtension ==
    /\ cmd = "intersect" /\ pc = "load_ext"
    /\ IF env = "no_spatialite"
       THEN /\ pc' = "failed" /\ error' = "OperationalError"
            /\ ext_loaded' = FALSE /\ con' = WithExit(con)
       ELSE /\ pc' = "query" /\ error' = error
            /\ ext_loaded' = TRUE /\ con' = con
    /\ UNCHANGED <<args, database, queries, wkt_str, df, result, stdout>>

\* line 130 and the end of the with block
IntersectQuery ==
    /\ cmd = "intersect" /\ pc = "query"
    /\ con' = WithExit(con)
    /\ IF env = "not_gpkg"
       THEN /\ pc' = "failed" /\ error' = "DatabaseError"
            /\ UNCHANGED <<df, queries>>
       ELSE /\ pc' = "echo" /\ error' = error
            /\ df' = IntersectQueryRows(wkt_str)
            /\ queries' = queries + 1
    /\ UNCHANGED <<args, database, ext_loaded, wkt_str, result, stdout>>

\* lines 132-133 and the return: the local con goes out of scope, and
\* whether that finalizes the connection is up to the runtime
IntersectEcho ==
    /\ cmd = "intersect" /\ pc = "echo"
    /\ stdout' = Append(stdout, df)
    /\ con' \in {con, "closed"}
    /\ pc' = "done"
    /\ UNCHANGED <<args, database, ext_loaded, queries, wkt_str, df, result,
                   error>>

----------------------------------------------------------------------------
(* lookup *)

\* line 144: the call of query_database
Lookup ==
    /\ cmd = "lookup" /\ pc = "start"
    /\ pc' = "connect"
    /\ UNCHANGED <<args, database, con, ext_loaded, queries, wkt_str, df,
                   result, stdout, error>>

\* line 52: sqlite3.connect(db_path)
QueryDatabaseConnect ==
    /\ cmd = "lookup" /\ pc = "connect"
    /\ IF env = "unopenable"
       THEN pc' = "failed" /\ error' = "OperationalError" /\ con' = con
       ELSE pc' = "query" /\ error' = error /\ con' = "open"
    /\ UNCHANGED <<args, database, ext_loaded, queries, wkt_str, df, result,
                   stdout>>

\* line 53 and the end of the with block
QueryDatabaseQuery ==
    /\ cmd = "lookup" /\ pc = "query"
    /\ con' = WithExit(con)
    /\ IF env = "not_gpkg"
       THEN /\ pc' = "failed" /\ error' = "DatabaseError"
            /\ UNCHANGED <<df, queries>>
       ELSE /\ pc' = "reshape" /\ error' = error
            /\ df' = LookupQuery(frame_id)
            /\ queries' = queries + 1
    /\ UNCHANGED <<args, database, ext_loaded, wkt_str, result, stdout>>

\* out_dict.get(frame_id, {}) in place of out_dict[frame_id]
GetItemOrEmpty(d, k) ==
    IF k \in DOMAIN d THEN [found |-> TRUE, v |-> d[k]]
    ELSE [found |-> TRUE, v |-> <<>>]

\* line 59: out_dict[frame_id], a KeyError when the key is absent
GetItem(d, k) ==
    IF k \in DOMAIN d THEN [found |-> TRUE, v |-> d[k]] ELSE [found |-> FALSE]

\* lines 55-59; on return the local con goes out of scope, and whether that
\* finalizes the connection is up to the runtime; a raised KeyError keeps
\* the frame and its connection alive in the traceback
QueryDatabaseReturn ==
    /\ cmd = "lookup" /\ pc = "reshape"
    /\ LET item == GetItem(OutDict(df), frame_id)
       IN  IF item.found
           THEN /\ result' = <<item.v>>
                /\ pc' = "echo" /\ error' = error
                /\ con' \in {con, "closed"}
           ELSE /\ result' = result
                /\ pc' = "failed" /\ error' = "KeyError"
                /\ con' = con
    /\ UNCHANGED <<args, database, ext_loaded, queries, wkt_str, df, stdout>>

\* line 145
LookupEcho ==
    /\ cmd = "lookup" /\ pc = "echo"
    /\ stdout' = Append(stdout, result[1])
    /\ pc' = "done"
    /\ UNCHANGED <<args, database, con, ext_loaded, queries, wkt_str, df,
                   result, error>>

----------------------------------------------------------------------------

Next ==
    \/ IntersectValidate
    \/ IntersectResolve
    \/ IntersectConnect
    \/ IntersectLoadExtension
    \/ IntersectQuery
    \/ IntersectEcho
    \/ Lookup
    \/ QueryDatabaseConnect
    \/ QueryDatabaseQuery
    \/ QueryDatabaseReturn
    \/ LookupEcho

Spec == Init /\ [][Next]_vars

TypeOK ==
    /\ cmd \in {"lookup", "intersect"}
    /\ pc \in {"start", "resolve", "connect", "load_ext", "query", "reshape",
               "echo", "done", "failed"}
    /\ con \in {"none", "open", "closed"}
    /\ error \in {"", "BadParameter", "OperationalError", "DatabaseError", "KeyError"}
    /\ Len(stdout) <= 1

----------------------------------------------------------------------------
(* Vocabulary of the properties *)

Finished == pc \in {"done", "failed"}

\* the rows of frames_bursts that tie a burst of burst_id_map to the frame
BurstRowsOf(fid) ==
    {i \in 1..Len(frames_bursts) :
        /\ frames_bursts[i].frame_fid = fid
        /\ frames_bursts[i].burst_ogc_fid \in DOMAIN burst_id_map}

BurstOf(i) == burst_id_map[frames_bursts[i].burst_ogc_fid]

Count(s, x) == Cardinality({i \in 1..Len(s) : s[i] = x})

BothSources == bbox # <<>> /\ wkt # NoWkt
NoSource == bbox = <<>> /\ wkt = NoWkt
OneSource == ~BothSources /\ ~NoSource

\* the geometry a well-formed WKT text of any type denotes
TextGeometry(text) ==
    IF IsPolygonText(text) \/ text \in OtherGeometryTexts
    THEN Val(Region(text.ring))
    ELSE Null

\* the geometry the command line denotes
InputGeometry ==
    IF bbox # <<>>
    THEN Val(Region(<< <<bbox[1], bbox[2]>>, <<bbox[3], bbox[4]>> >>))
    ELSE TextGeometry(wkt)

IntersectingFrames ==
    {fid \in DOMAIN frames : frames[fid].geom.pts \cap InputGeometry.v # {}}

Returned == {stdout[1][i].frame_id : i \in 1..Len(stdout[1])}

----------------------------------------------------------------------------
(* Properties *)

\* C1: intersect given both --bbox and --wkt, or neither, ends in a usage
\* error and never opens a connection or runs a query.
C1_UsageErrorBeforeDatabase ==
    (cmd = "intersect" /\ (BothSources \/ NoSource)) =>
        /\ con = "none"
        /\ queries = 0
        /\ pc # "done"
        /\ (pc = "failed" => error = "BadParameter")

\* C2: lookup of a frame id with no row in frames ends in KeyError, an error
\* raised only after the query succeeded and so distinct from the connection
\* and query errors, and it neither returns nor prints anything.
C2_LookupAbsentIsNotFound ==
    (cmd = "lookup" /\ frame_id \notin DOMAIN frames) =>
        /\ stdout = <<>>
        /\ result = <<>>
        /\ pc \notin {"echo", "done"}
        /\ (pc = "failed" => (error = "KeyError" <=> queries = 1))
        /\ (pc = "failed" /\ queries = 0 =>
                error \in {"OperationalError", "DatabaseError"})

C2_Witness ==
    /\ cmd = "lookup" /\ frame_id \notin DOMAIN frames
    /\ pc = "failed" /\ error = "KeyError"

\* C3: with exactly one geometry source that denotes a geometry, intersect
\* prints exactly the frames whose stored geometry intersects it, each once.
C3_ExactlyTheIntersectingFrames ==
    (cmd = "intersect" /\ OneSource /\ ~InputGeometry.null /\ Finished
        /\ env = "ok") =>
        /\ pc = "done"
        /\ Returned = IntersectingFrames
        /\ Len(stdout[1]) = Cardinality(Returned)

\* C4: malformed --wkt text fails with a parse error before the database is
\* reached: no connection, no query, no JSON.
C4_MalformedWktFailsEarly ==
    (cmd = "intersect" /\ bbox = <<>> /\ wkt \in MalformedTexts) =>
        /\ con = "none"
        /\ queries = 0
        /\ stdout = <<>>
        /\ pc # "done"

\* C5: no invocation ends with its connection still open.
C5_ConnectionClosedAtExit ==
    Finished => con # "open"

\* C6: JSON is written only after the connection open, the extension load
\* (intersect) and the one query succeeded; a failed step ends the invocation
\* with an error at the CLI boundary and nothing on standard output.
C6_OutputOnlyAfterSuccess ==
    /\ queries <= 1
    /\ (stdout # <<>> =>
            /\ con # "none"
            /\ queries = 1
            /\ (cmd = "intersect" => ext_loaded)
            /\ error = "")
    /\ (pc = "failed" => error # "" /\ stdout = <<>>)
    /\ (pc = "done" =>
            /\ env # "unopenable" /\ env # "not_gpkg"
            /\ (cmd = "intersect" => env # "no_spatialite"))

C6_Witness ==
    /\ cmd = "intersect" /\ pc = "failed" /\ env = "no_spatialite"
    /\ con = "open" /\ error = "OperationalError"

C9_PrefilterNeverUnderSelects ==
    (cmd = "intersect" /\ OneSource /\ ~InputGeometry.null /\ pc = "done") =>
        /\ IntersectingFrames \subseteq Candidates(wkt_str)
        /\ Returned \subseteq Candidates(wkt_str)
        /\ IntersectingFrames \subseteq Returned

\* C10: lookup of a frame that is in frames but has no burst row joining to
\* burst_id_map ends as lookup of an absent id does: the query gives no row
\* and the call fails with KeyError, printing nothing.
C10_FrameWithoutBurstsIsNotFound ==
    (cmd = "lookup" /\ frame_id \in DOMAIN frames
        /\ BurstRowsOf(frame_id) = {}) =>
        /\ stdout = <<>>
        /\ result = <<>>
        /\ pc \notin {"echo", "done"}
        /\ (pc \in {"reshape", "failed"} /\ queries = 1 => df = <<>>)
        /\ (pc = "failed" /\ queries = 1 => error = "KeyError")

C10_Witness ==
    /\ cmd = "lookup" /\ frame_id \in DOMAIN frames
    /\ BurstRowsOf(frame_id) = {}
    /\ frames_bursts # <<>>
    /\ pc = "failed" /\ error = "KeyError"

====
